---- MODULE Spec2Model ----
(***************************************************************************)
(* The no-op formatter of the mbedtls platform support shim                *)
(* (crates/mbedtls-platform-support/src/rust_printf.c) and the formatted   *)
(* output declarations of kernel/mbedtls-include/stdio.h.                  *)
(*                                                                         *)
(* Memory is a byte array over the mapped addresses 1..Len(mem).  Address  *)
(* 0 is the null pointer and Len(mem)+1 is the one-past-the-end address of *)
(* the last buffer: it is a legal pointer value but it is not mapped.      *)
(* A call is well formed when its buffer pointer is null, or its capacity  *)
(* is zero, or the n bytes starting at the pointer are mapped.             *)
(***************************************************************************)
EXTENDS Integers, Sequences, FiniteSets

\* ---- bounds ------------------------------------------------------------
\* the number of concurrent callers, and the bytes of a caller's buffer
NumCallers == 2
BufLen == 2

\* ---- values ----------------------------------------------------------------
NULL == 0
\* a byte is the null terminator (0) or some other value (1)
Byte == {0, 1}
\* a size_t capacity
Size == 0..BufLen
\* the format strings in read-only data; a const char *fmt is 0 (null) or the
\* index of one of them
FmtTable == << <<"%", "d">>, <<"i", "g", "n", "o", "r", "e", "d">> >>
Fmt == 0..Len(FmtTable)
\* the variadic arguments, or the va_list built from them
VaLists == {<<>>, <<42>>}

Mapped(m) == DOMAIN m
PastEnd(m) == Len(m) + 1
Ptr(m) == 0..PastEnd(m)

\* a call is well formed when the n bytes at s are mapped, or s is null, or
\* n is 0 (s may then be a one-past-the-end pointer)
WellFormed(m, s, n) ==
    s = NULL \/ n = 0 \/ (s \in Mapped(m) /\ s + n - 1 <= Len(m))

VARIABLES mem, out, last, twin, pc, arg, loc, solo, steps

vars == <<mem, out, last, twin, pc, arg, loc, solo, steps>>
concVars == <<pc, arg, loc, solo, steps>>

\* ---- the machine a call runs on -------------------------------------------
\* mem: the bytes; out: the output stream; derefs: the pointer arguments the
\* call has dereferenced; writes: the addresses it has stored to; fault: a
\* store through a null or unmapped pointer; ret: the value returned (-1
\* while the call has not returned).
Machine(m, o) ==
    [mem |-> m, out |-> o, derefs |-> {}, writes |-> {}, fault |-> FALSE, ret |-> -1]

\* s[0] = '\0';
StoreNul(st, s) ==
    IF s \in Mapped(st.mem)
    THEN [st EXCEPT !.mem[s] = 0, !.derefs = @ \cup {"s"}, !.writes = @ \cup {s}]
    ELSE [st EXCEPT !.fault = TRUE, !.derefs = @ \cup {"s"}, !.writes = @ \cup {s}]

\* the test without the capacity: if (s)
CondNoCapacity(s, n) == s # NULL

\* the test without the pointer: if (n > 0)
CondNoNull(s, n) == n > 0

\* n > 0 && s
Cond(s, n) == n > 0 /\ s # NULL

\* returning the number of bytes stored instead of 0
ReturnWritten(st) == [st EXCEPT !.ret = Cardinality(st.writes)]

\* return 0;
Return0(st) == [st EXCEPT !.ret = 0]

\* a printf that echoes its format string to the output stream
printf_echo(st, fmt, va) ==
    Return0(IF fmt = NULL
            THEN [st EXCEPT !.fault = TRUE, !.derefs = @ \cup {"fmt"}]
            ELSE [st EXCEPT !.out = @ \o FmtTable[fmt], !.derefs = @ \cup {"fmt"}])

mbedtls_printf(st, fmt, va) == Return0(st)

\* an snprintf that terminates the buffer at its last byte: s[n - 1] = '\0'
snprintf_terminate_end(st, s, n, fmt, va) ==
    Return0(IF Cond(s, n) THEN StoreNul(st, s + n - 1) ELSE st)

\* an snprintf that looks at its format string before it stores
snprintf_reads_fmt(st, s, n, fmt, va) ==
    Return0(IF Cond(s, n)
            THEN IF fmt = NULL
                 THEN [st EXCEPT !.fault = TRUE, !.derefs = @ \cup {"fmt"}]
                 ELSE StoreNul([st EXCEPT !.derefs = @ \cup {"fmt"}], s)
            ELSE st)

mbedtls_snprintf(st, s, n, fmt, va) ==
    Return0(IF Cond(s, n) THEN StoreNul(st, s) ELSE st)

\* a vsnprintf that wants room for a character before the terminator: n > 1
vsnprintf_off_by_one(st, s, n, fmt, ap) ==
    Return0(IF n > 1 /\ s # NULL THEN StoreNul(st, s) ELSE st)

mbedtls_vsnprintf(st, s, n, fmt, ap) ==
    Return0(IF Cond(s, n) THEN StoreNul(st, s) ELSE st)

Stubs == {"mbedtls_printf", "mbedtls_snprintf", "mbedtls_vsnprintf"}
Buffered == {"mbedtls_snprintf", "mbedtls_vsnprintf"}

Run(fn, st, s, n, fmt, va) ==
    CASE fn = "mbedtls_printf" -> mbedtls_printf(st, fmt, va)
      [] fn = "mbedtls_snprintf" -> mbedtls_snprintf(st, s, n, fmt, va)
      [] fn = "mbedtls_vsnprintf" -> mbedtls_vsnprintf(st, s, n, fmt, va)

\* ---- the declaration surface ------------------------------------------------
Decl(name, params, variadic) ==
    [name |-> name, ret |-> "int", params |-> params, variadic |-> variadic]

NoDecl == [name |-> "", ret |-> "", params |-> <<>>, variadic |-> FALSE]

\* the declarations of stdio.h
stdio_h ==
    { Decl("vsnprintf", <<"char *", "size_t", "const char *", "va_list">>, FALSE),
      Decl("snprintf", <<"char *", "size_t", "const char *">>, TRUE),
      Decl("printf", <<"const char *">>, TRUE),
      Decl("mbedtls_vsnprintf", <<"char *", "size_t", "const char *", "va_list">>, FALSE),
      Decl("mbedtls_snprintf", <<"char *", "size_t", "const char *">>, TRUE) }

\* the definitions of rust_printf.c
rust_printf_c ==
    { Decl("mbedtls_printf", <<"const char *">>, TRUE),
      Decl("mbedtls_snprintf", <<"char *", "size_t", "const char *">>, TRUE),
      Decl("mbedtls_vsnprintf", <<"char *", "size_t", "const char *", "va_list">>, FALSE) }

\* the formatted-output lines of the binding contract
BindingContract ==
    { Decl("printf", <<"const char *">>, TRUE),
      Decl("snprintf", <<"char *", "size_t", "const char *">>, TRUE),
      Decl("vsnprintf", <<"char *", "size_t", "const char *", "va_list">>, FALSE),
      Decl("mbedtls_printf", <<"const char *">>, TRUE),
      Decl("mbedtls_snprintf", <<"char *", "size_t", "const char *">>, TRUE),
      Decl("mbedtls_vsnprintf", <<"char *", "size_t", "const char *", "va_list">>, FALSE) }

FormattedFamily == {d.name : d \in BindingContract}

Lookup(table, name) ==
    IF \E d \in table : d.name = name
    THEN CHOOSE d \in table : d.name = name
    ELSE NoDecl

\* ---- one caller, one step at a time -----------------------------------------
\* last: the caller's most recent step, a call of a stub or a reference to a
\* name of the family resolved at build time (kind "ref": nothing has run)
NoCall ==
    [kind |-> "none", fn |-> "", decl |-> NoDecl, def |-> NoDecl,
     s |-> NULL, n |-> 0, fmt |-> 0, va |-> <<>>,
     pre |-> <<>>, preOut |-> <<>>,
     ret |-> -1, derefs |-> {}, writes |-> {}, fault |-> FALSE]

\* the sibling runs of a call: the same memory, buffer pointer and capacity
\* given to either buffered stub with every format string and argument list
Siblings(fn, m, o, s, n) ==
    { [fn |-> f, fmt |-> x, va |-> a, res |-> Run(f, Machine(m, o), s, n, x, a)] :
        f \in (IF fn \in Buffered THEN Buffered ELSE {fn}), x \in Fmt, a \in VaLists }

Call(fn, s, n, fmt, va) ==
    LET st == Run(fn, Machine(mem, out), s, n, fmt, va) IN
    /\ mem' = st.mem
    /\ out' = st.out
    /\ last' = [kind |-> "call", fn |-> fn,
                decl |-> Lookup(stdio_h, fn), def |-> Lookup(rust_printf_c, fn),
                s |-> s, n |-> n, fmt |-> fmt, va |-> va,
                pre |-> mem, preOut |-> out, ret |-> st.ret,
                derefs |-> st.derefs, writes |-> st.writes, fault |-> st.fault]
    /\ twin' = Siblings(fn, mem, out, s, n)
    /\ UNCHANGED concVars

Printf == \E fmt \in Fmt, va \in VaLists : Call("mbedtls_printf", NULL, 0, fmt, va)

Snprintf ==
    \E s \in Ptr(mem), n \in Size, fmt \in Fmt, va \in VaLists :
        WellFormed(mem, s, n) /\ Call("mbedtls_snprintf", s, n, fmt, va)

Vsnprintf ==
    \E s \in Ptr(mem), n \in Size, fmt \in Fmt, ap \in VaLists :
        WellFormed(mem, s, n) /\ Call("mbedtls_vsnprintf", s, n, fmt, ap)

\* a caller's translation unit includes stdio.h, names a function of the
\* formatted-output family and is linked against rust_printf.c
Compile ==
    \E name \in FormattedFamily :
        /\ last' = [NoCall EXCEPT !.kind = "ref", !.fn = name,
                                  !.decl = Lookup(stdio_h, name),
                                  !.def = Lookup(rust_printf_c, name)]
        /\ twin' = {}
        /\ UNCHANGED <<mem, out, concVars>>

\* ---- concurrent callers, one statement at a time ---------------------------
Callers == 1..NumCallers
Base(t) == (t - 1) * BufLen + 1
Own(t) == Base(t)..(Base(t) + BufLen - 1)
Idle == [fn |-> "", s |-> NULL, n |-> 0]
Local == [derefs |-> {}, writes |-> {}, fault |-> FALSE, ret |-> -1]
NoSolo == [buf |-> <<>>, ret |-> -1, fault |-> FALSE]

Quiet ==
    /\ pc = [t \in Callers |-> "idle"]
    /\ arg = [t \in Callers |-> Idle]
    /\ loc = [t \in Callers |-> Local]
    /\ solo = [t \in Callers |-> NoSolo]
    /\ steps = [t \in Callers |-> 0]

\* one caller: a buffer of BufLen bytes and one byte beyond it
Init ==
    /\ mem \in [1..(BufLen + 1) -> Byte]
    /\ out = <<>>
    /\ last = NoCall
    /\ twin = {}
    /\ Quiet

Next == Printf \/ Snprintf \/ Vsnprintf \/ Compile

Spec == Init /\ [][Next]_vars

\* ---- concurrent callers ------------------------------------------------------
\* Caller t owns the buffer Own(t) and passes its base with its real capacity,
\* or a zero capacity with its base or its one-past-the-end pointer, or null
\* with that capacity.
ConcInit ==
    /\ mem = [a \in 1..(NumCallers * BufLen) |-> 1]
    /\ out = <<>>
    /\ last = NoCall
    /\ twin = {}
    /\ Quiet

ConcInputs(t) ==
    { <<NULL, BufLen>>, <<Base(t), 0>>, <<Base(t), BufLen>>, <<Base(t) + BufLen, 0>> }

\* a null format with no arguments, or "%d" with one
ConcFormats == { <<NULL, <<>>>>, <<1, <<42>>>> }

\* what the call would leave in the caller's buffer, and return, run alone
Alone(t, fn, s, n, fmt, va) ==
    LET r == Run(fn, Machine(mem, out), s, n, fmt, va) IN
    [buf |-> [a \in Own(t) |-> r.mem[a]], ret |-> r.ret, fault |-> r.fault]

Enter(t, fn, s, n, fmt, va) ==
    /\ pc[t] = "idle"
    /\ pc' = [pc EXCEPT ![t] = IF fn \in Buffered THEN "cond" ELSE "ret"]
    /\ arg' = [arg EXCEPT ![t] = [fn |-> fn, s |-> s, n |-> n]]
    /\ loc' = [loc EXCEPT ![t] = Local]
    /\ solo' = [solo EXCEPT ![t] = Alone(t, fn, s, n, fmt, va)]
    /\ steps' = [steps EXCEPT ![t] = 0]
    /\ UNCHANGED <<mem, out, last, twin>>

EnterPrintf(t) ==
    \E f \in ConcFormats : Enter(t, "mbedtls_printf", NULL, 0, f[1], f[2])

EnterBuffered(t) ==
    \E fn \in Buffered, in \in ConcInputs(t), f \in ConcFormats :
        Enter(t, fn, in[1], in[2], f[1], f[2])

\* if (n > 0 && s)
CondStep(t) ==
    /\ pc[t] = "cond"
    /\ pc' = [pc EXCEPT ![t] = IF Cond(arg[t].s, arg[t].n) THEN "store" ELSE "ret"]
    /\ steps' = [steps EXCEPT ![t] = @ + 1]
    /\ UNCHANGED <<mem, out, last, twin, arg, loc, solo>>

\* s[0] = '\0';  a store through a null or unmapped pointer stops the caller
StoreStep(t) ==
    /\ pc[t] = "store"
    /\ LET st == StoreNul([mem |-> mem, out |-> out, derefs |-> loc[t].derefs,
                           writes |-> loc[t].writes, fault |-> loc[t].fault,
                           ret |-> loc[t].ret], arg[t].s) IN
        /\ mem' = st.mem
        /\ out' = st.out
        /\ loc' = [loc EXCEPT ![t] = [derefs |-> st.derefs, writes |-> st.writes,
                                      fault |-> st.fault, ret |-> st.ret]]
        /\ pc' = [pc EXCEPT ![t] = IF st.fault THEN "fault" ELSE "ret"]
    /\ steps' = [steps EXCEPT ![t] = @ + 1]
    /\ UNCHANGED <<last, twin, arg, solo>>

\* a return that waits until no other caller is inside a call
ReturnStepWaits(t) ==
    /\ pc[t] = "ret"
    /\ \A u \in Callers \ {t} : pc[u] = "idle"
    /\ loc' = [loc EXCEPT ![t] = Return0(loc[t])]
    /\ pc' = [pc EXCEPT ![t] = "idle"]
    /\ arg' = [arg EXCEPT ![t] = Idle]
    /\ solo' = [solo EXCEPT ![t] = NoSolo]
    /\ steps' = [steps EXCEPT ![t] = @ + 1]
    /\ UNCHANGED <<mem, out, last, twin>>

\* return 0;  the caller has its result and is free to call again
ReturnStep(t) ==
    /\ pc[t] = "ret"
    /\ loc' = [loc EXCEPT ![t] = Return0(loc[t])]
    /\ pc' = [pc EXCEPT ![t] = "idle"]
    /\ arg' = [arg EXCEPT ![t] = Idle]
    /\ solo' = [solo EXCEPT ![t] = NoSolo]
    /\ steps' = [steps EXCEPT ![t] = @ + 1]
    /\ UNCHANGED <<mem, out, last, twin>>

Step(t) == CondStep(t) \/ StoreStep(t) \/ ReturnStep(t)

ConcNext ==
    \E t \in Callers :
        \/ EnterPrintf(t)
        \/ EnterBuffered(t)
        \/ CondStep(t)
        \/ StoreStep(t)
        \/ ReturnStep(t)

ConcSpec == ConcInit /\ [][ConcNext]_vars

\* every caller that is inside a call keeps being scheduled
FairConcSpec == ConcSpec /\ \A t \in Callers : WF_vars(Step(t))

\* ---- properties -----------------------------------------------------------
Called == last.kind = "call"
BufferedCall == Called /\ last.fn \in Buffered
InCall == {"cond", "store", "ret"}

\* C1: a buffered stub called with capacity n > 0 and a non-null buffer leaves
\* s[0] = 0, stores to no other address, leaves every other byte of memory and
\* the output stream as they were, and does not fault.
C1_FirstByteOnly ==
    (BufferedCall /\ last.n > 0 /\ last.s # NULL) =>
        /\ ~last.fault
        /\ mem[last.s] = 0
        /\ last.writes = {last.s}
        /\ DOMAIN mem = DOMAIN last.pre
        /\ \A a \in DOMAIN mem \ {last.s} : mem[a] = last.pre[a]
        /\ out = last.preOut

C1_Witness ==
    /\ BufferedCall /\ last.s = 1 /\ last.n = BufLen /\ last.n > 1
    /\ \A a \in DOMAIN last.pre : last.pre[a] = 1
    /\ mem[1] = 0 /\ mem[2] = 1

\* C2: a buffered stub called with n = 0 never dereferences the buffer
\* pointer, whatever it is, and leaves all of memory unchanged.
C2_ZeroCapacity ==
    (BufferedCall /\ last.n = 0) =>
        /\ "s" \notin last.derefs
        /\ last.writes = {}
        /\ ~last.fault
        /\ mem = last.pre
        /\ out = last.preOut

C2_Witness ==
    /\ BufferedCall /\ last.n = 0 /\ last.s = PastEnd(mem)
    /\ \A a \in DOMAIN mem : mem[a] = 1

\* C3: a buffered stub called with a null buffer pointer, whatever n is,
\* stores nothing, does not fault and returns with memory unchanged.
C3_NullBuffer ==
    (BufferedCall /\ last.s = NULL) =>
        /\ last.writes = {}
        /\ ~last.fault
        /\ last.ret = 0
        /\ mem = last.pre
        /\ out = last.preOut

C3_Witness == BufferedCall /\ last.s = NULL /\ last.n = BufLen /\ last.n > 0

\* C4: every call of the three stubs returns 0, whether or not the
\* terminating byte was stored.
C4_ReturnsZero == Called => last.ret = 0

C4_Witness ==
    /\ BufferedCall /\ last.writes # {} /\ last.pre[last.s] = 1
    /\ last.fmt = NULL /\ last.ret = 0

\* C5: from the same memory, with the same buffer pointer, capacity and
\* format string, mbedtls_vsnprintf with any va_list and mbedtls_snprintf with
\* any variadic arguments end in the same memory and return the same value.
C5_SameAsSnprintf ==
    BufferedCall =>
        \A r \in twin :
            (r.fn # last.fn /\ r.fmt = last.fmt) =>
                /\ r.res.mem = mem
                /\ r.res.out = out
                /\ r.res.ret = last.ret
                /\ r.res.fault = last.fault

C5_Witness ==
    /\ Called /\ last.fn = "mbedtls_vsnprintf"
    /\ last.writes # {} /\ last.pre[last.s] = 1 /\ last.n = 1
    /\ \E r \in twin :
        r.fn = "mbedtls_snprintf" /\ r.fmt = last.fmt /\ r.va # last.va

\* C6: mbedtls_printf writes nothing to the output stream or to memory,
\* dereferences none of its arguments and returns 0, for every format
\* pointer, null or not, and every argument list.
C6_PrintfInert ==
    (Called /\ last.fn = "mbedtls_printf") =>
        /\ out = last.preOut
        /\ mem = last.pre
        /\ last.writes = {}
        /\ last.derefs = {}
        /\ ~last.fault
        /\ last.ret = 0

C6_Witness ==
    Called /\ last.fn = "mbedtls_printf" /\ last.fmt = NULL /\ last.va # <<>>

\* C7: with any interleaving of concurrent callers, a step of a caller
\* changes no byte outside that caller's own buffer and nothing of the
\* output stream, and when a call returns, the caller's buffer and the
\* value returned are those of the same call run alone.
C7_Reentrant ==
    [][\A t \in Callers :
          /\ (pc'[t] # pc[t]) =>
                /\ out' = out
                /\ DOMAIN mem' = DOMAIN mem
                /\ \A a \in DOMAIN mem \ Own(t) : mem'[a] = mem[a]
          /\ (pc[t] = "ret" /\ pc'[t] = "idle") =>
                /\ loc'[t].ret = solo[t].ret
                /\ ~loc'[t].fault
                /\ loc'[t].writes \subseteq Own(t)
                /\ \A a \in Own(t) : mem'[a] = solo[t].buf[a]]_vars

C7_Witness ==
    /\ pc[1] = "ret" /\ loc[1].writes = {Base(1)} /\ mem[Base(1)] = 0
    /\ pc[2] = "store" /\ mem[Base(2)] = 1
    /\ arg[1].fn # arg[2].fn

\* C8: from the same memory, with the same buffer pointer and capacity, a
\* buffered stub ends in the same memory and returns the same value for
\* every format string (null included) and every argument list, and it
\* dereferences neither.
C8_FormatIndependent ==
    BufferedCall =>
        /\ last.derefs \subseteq {"s"}
        /\ \A r \in twin :
              r.fn = last.fn =>
                /\ r.res.mem = mem
                /\ r.res.out = out
                /\ r.res.ret = last.ret
                /\ r.res.fault = last.fault
                /\ r.res.derefs \subseteq {"s"}

C8_Witness ==
    /\ BufferedCall /\ last.writes # {} /\ last.pre[last.s] = 1
    /\ last.fmt = NULL /\ last.va = <<>>
    /\ \E r \in twin : r.fn = last.fn /\ r.fmt # NULL /\ r.va # <<>>

\* C9: every name of the formatted-output family is declared in stdio.h,
\* with the signature of the binding contract and of its definition in
\* rust_printf.c.
C9_DeclaredWithParity ==
    (last.kind \in {"ref", "call"}) =>
        /\ last.decl # NoDecl
        /\ last.decl = Lookup(BindingContract, last.fn)
        /\ (last.def # NoDecl => last.def = last.decl)

\* C10: a call never faults, takes at most three steps, and under fair
\* scheduling of the callers returns, whatever the other callers do.
C10_Returns ==
    /\ [](\A t \in Callers : pc[t] # "fault" /\ ~loc[t].fault /\ steps[t] <= 3)
    /\ \A t \in Callers : (pc[t] \in InCall) ~> (pc[t] = "idle")

C10_Witness ==
    /\ pc[1] = "idle" /\ steps[1] = 3 /\ loc[1].ret = 0
    /\ pc[2] \in InCall

====
